---- MODULE Spec2Model ----
(***************************************************************************)
(* Model of the certification-consulting chat backend (src/main.py): the   *)
(* rule-based handler of POST /api/chat, its static tables and the         *)
(* requests clients send to it.                                            *)
(*                                                                         *)
(* A text is a string, and Python's str operations (strip, lower, in,      *)
(* join, +) are modelled on it character by character.  A string here      *)
(* holds the characters up to U+00FF only, so each character above U+00FF  *)
(* that the program's texts or the modelled messages hold, or that the     *)
(* case of a character up to U+00FF leads to, is written as an ASCII       *)
(* character that none of them holds otherwise:                            *)
(*                                                                         *)
(*     ^   U+2019  right single quotation mark   (in replies)              *)
(*     ~   U+2013  en dash                       (in replies)              *)
(*     _   U+2014  em dash                       (in follow-ups)           *)
(*     |   U+0131  latin small letter dotless i  (in messages)             *)
(*     {   U+039C  greek capital letter mu       (upper case of U+00B5)    *)
(*     #   U+03BC  greek small letter mu         (lower case of U+039C)    *)
(*     }   U+0178  capital y with diaeresis      (upper case of U+00FF)    *)
(*                                                                         *)
(* The replacement is one character for one character, so lengths,         *)
(* positions and containment are those of the program's texts.             *)
(***************************************************************************)
EXTENDS Integers, Sequences, FiniteSets, TLC

(***************************************************************************)
(* Bounds of the model.                                                    *)
(***************************************************************************)
\* A client types its message as at most MaxFrags fragments of Vocabulary.
MaxFrags == 2
\* Requests of other clients handled between a request and its repetition.
MaxOthers == 1

(***************************************************************************)
(* Python's str methods.                                                   *)
(***************************************************************************)
\* The i-th character of s, s[i - 1] in Python.
At(s, i) == SubSeq(s, i, i)

AsciiUpper == "ABCDEFGHIJKLMNOPQRSTUVWXYZ"
AsciiLower == "abcdefghijklmnopqrstuvwxyz"
UpperSet == {At(AsciiUpper, i) : i \in 1..26}
LowerSet == {At(AsciiLower, i) : i \in 1..26}
ToLowerAscii == [c \in UpperSet |-> At(AsciiLower, CHOOSE i \in 1..26 : At(AsciiUpper, i) = c)]
ToUpperAscii == [c \in LowerSet |-> At(AsciiUpper, CHOOSE i \in 1..26 : At(AsciiLower, i) = c)]

\* The letters of U+0080..U+00FF that have another case there: U+00C0..U+00DE
\* without the multiplication sign, and U+00E0..U+00FE without the division
\* sign.
Latin1Upper == "ÀÁÂÃÄÅÆÇÈÉÊËÌÍÎÏÐÑÒÓÔÕÖØÙÚÛÜÝÞ"
Latin1Lower == "àáâãäåæçèéêëìíîïðñòóôõöøùúûüýþ"
Latin1UpperSet == {At(Latin1Upper, i) : i \in 1..30}
Latin1LowerSet == {At(Latin1Lower, i) : i \in 1..30}
ToLowerLatin1 == [c \in Latin1UpperSet |-> At(Latin1Lower, CHOOSE i \in 1..30 : At(Latin1Upper, i) = c)]
ToUpperLatin1 == [c \in Latin1LowerSet |-> At(Latin1Upper, CHOOSE i \in 1..30 : At(Latin1Lower, i) = c)]

\* str.isspace(): the characters str.strip() removes.  Up to U+00FF these
\* are space, \t, \n, \r, \f, the control characters 0B (vertical tab),
\* 1C, 1D, 1E, 1F (file, group, record, unit separator), U+0085 (next
\* line) and U+00A0 (no-break space); the last seven have no escape and
\* stand in the literals as themselves.  The whitespace above U+00FF
\* (U+1680, U+2000..U+200A, U+2028, U+2029, U+202F, U+205F, U+3000) cannot
\* be held by a string here.
Whitespace == {" ", "\t", "\n", "\r", "\f", "", "", "", "", "", "", " "}

\* str.lower() of one character.  A dotless i (|), a sharp s, a micro sign
\* and the ordinal indicators are lower-case letters already.
LowerChar(c) ==
    IF c \in UpperSet THEN ToLowerAscii[c]
    ELSE IF c \in Latin1UpperSet THEN ToLowerLatin1[c]
    ELSE IF c = "{" THEN "#"
    ELSE IF c = "}" THEN "ÿ"
    ELSE c

\* str.upper() of one character: a text, because the upper case of a sharp
\* s is "SS".  The upper case of a dotless i (|) is the ASCII letter I,
\* that of a micro sign the Greek capital mu ({), that of a y with
\* diaeresis the capital one (}).
UpperChar(c) ==
    IF c \in LowerSet THEN ToUpperAscii[c]
    ELSE IF c \in Latin1LowerSet THEN ToUpperLatin1[c]
    ELSE IF c = "ß" THEN "SS"
    ELSE IF c = "|" THEN "I"
    ELSE IF c = "µ" THEN "{"
    ELSE IF c = "#" THEN "{"
    ELSE IF c = "ÿ" THEN "}"
    ELSE c

RECURSIVE Lower(_)
\* Variant: the text is left in the case it was typed in.
LowerIdentity(s) == s
\* s.lower()
Lower(s) == IF s = "" THEN "" ELSE LowerChar(At(s, 1)) \o Lower(SubSeq(s, 2, Len(s)))

RECURSIVE Upper(_)
\* s.upper()
Upper(s) == IF s = "" THEN "" ELSE UpperChar(At(s, 1)) \o Upper(SubSeq(s, 2, Len(s)))

\* Variant: the text keeps its surrounding whitespace.
StripNothing(s) == s
\* s.strip(): s without its leading and its trailing whitespace.
Strip(s) ==
    LET inner == {i \in 1..Len(s) : At(s, i) \notin Whitespace}
    IN  IF inner = {} THEN ""
        ELSE SubSeq(s, CHOOSE i \in inner : \A j \in inner : i <= j,
                       CHOOSE i \in inner : \A j \in inner : j <= i)

\* k in text
Contains(text, k) ==
    \E i \in 1..(Len(text) - Len(k) + 1) : SubSeq(text, i, i + Len(k) - 1) = k

\* text.startswith(k)
StartsWith(text, k) == Len(k) <= Len(text) /\ SubSeq(text, 1, Len(k)) = k

RECURSIVE Join(_, _)
\* sep.join(items)
Join(sep, items) ==
    IF items = <<>> THEN ""
    ELSE IF Len(items) = 1 THEN items[1]
    ELSE items[1] \o sep \o Join(sep, Tail(items))

(***************************************************************************)
(* The static tables.                                                      *)
(***************************************************************************)
\* CERT_TOPICS: a dict, iterated in insertion order; here the sequence of
\* its items in that order.
CERT_TOPICS == <<
    [key |-> "iso 9001",
     title |-> "ISO 9001 (Quality Management)",
     overview |-> "Framework for consistent quality, customer satisfaction, and continual improvement.",
     steps |-> << "Gap analysis against ISO 9001:2015 requirements",
                  "Define scope and process mapping",
                  "Build QMS documentation and controls",
                  "Train teams and run internal audits",
                  "Management review and certification audit support" >>,
     timeline |-> "8~16 weeks for most SMEs",
     benefits |-> << "Reduced defects", "Higher customer trust",
                     "Operational consistency" >>],
    [key |-> "iso 27001",
     title |-> "ISO/IEC 27001 (Information Security)",
     overview |-> "ISMS to manage risk, controls (Annex A), and continuous improvement.",
     steps |-> << "Risk assessment and Statement of Applicability",
                  "Policies, procedures, and control implementation",
                  "Security awareness and incident response",
                  "Internal audit and readiness assessment",
                  "Stage 1 & 2 certification audit support" >>,
     timeline |-> "10~20 weeks depending on scope",
     benefits |-> << "Reduced security risk", "Stakeholder assurance",
                     "Compliance readiness" >>],
    [key |-> "iso 14001",
     title |-> "ISO 14001 (Environmental Management)",
     overview |-> "EMS to manage environmental responsibilities systematically.",
     steps |-> << "Identify aspects and impacts",
                  "Set objectives and operational controls",
                  "Training and awareness",
                  "Internal audit and management review",
                  "Certification audit support" >>,
     timeline |-> "8~14 weeks",
     benefits |-> << "Reduced environmental impact", "Regulatory compliance",
                     "Cost savings" >>] >>

GENERIC_SUGGESTIONS == <<
    "What standards are most relevant for our industry?",
    "Can you provide a sample project plan?",
    "What documentation do we need to prepare?" >>

(***************************************************************************)
(* The literals of the handler.                                            *)
(***************************************************************************)
GreetingKeys == << "hello", "hi", "hey" >>
TimelineKeys == << "timeline", "how long" >>
CostKeys == << "cost", "price", "budget" >>

GreetingReply ==
    "Hi! I^m your certification assistant. I can help with ISO 9001, ISO 27001, ISO 14001 and more. Tell me your goals, industry, and timeframe, and I^ll recommend a path to certification."

TopicSuggestions == <<
    "Can you estimate effort for our team size?",
    "What evidence do auditors expect?",
    "Can we combine multiple standards into an integrated management system?" >>

TimelineReply ==
    "Timelines vary by scope and readiness. Most clients complete core work in 8~20 weeks. Share your headcount, sites, and current policies for a tailored plan."

TimelineSuggestions == <<
    "We have 2 sites and 80 staff_what^s a realistic plan?" >>

CostReply ==
    "Consulting effort depends on scope and existing maturity. We typically work on fixed-fee phases aligned to milestones. Share your standards of interest and timeline and we^ll propose options."

CostSuggestions == <<
    "We^re targeting ISO 27001 in Q2_please outline a proposal." >>

DefaultReply ==
    "I can help map the right certification path for you. Which standards are you considering (e.g., ISO 9001, ISO 27001)? Tell me your industry and timeframe for a tailored plan."

(***************************************************************************)
(* The handler of POST /api/chat.                                          *)
(***************************************************************************)
\* raise HTTPException(status_code=400, detail="Message is required")
HTTPException == [status |-> 400, detail |-> "Message is required"]

\* ChatResponse(reply=..., suggested_follow_ups=...), sent with status 200.
ChatResponse(reply, follow_ups) ==
    [status |-> 200, reply |-> reply, suggested_follow_ups |-> follow_ups]

\* Variant: the contents of the history are matched too.
TextWithHistory(req) ==
    Lower(Strip(req.message)) \o
    (IF ~req.history.given THEN ""
     ELSE Lower(Join(" ", [i \in 1..Len(req.history.items) |-> req.history.items[i].content])))
\* text = (req.message or "").strip().lower()
Text(req) == Lower(Strip(req.message))

\* any(k in text for k in keys); also the or-chains over the timeline and
\* cost literals.
ContainsAny(text, keys) == \E i \in 1..Len(keys) : Contains(text, keys[i])

\* Variant: the last matching item of the table is taken.
LastTopic(text, topics) ==
    LET hits == {i \in 1..Len(topics) : Contains(text, topics[i].key)}
    IN  IF hits = {} THEN 0 ELSE CHOOSE i \in hits : \A j \in hits : j <= i
\* for key, info in CERT_TOPICS.items(): if key in text: ... return
\* The index of the item the loop returns at, 0 when it runs to its end.
FirstTopic(text, topics) ==
    LET hits == {i \in 1..Len(topics) : Contains(text, topics[i].key)}
    IN  IF hits = {} THEN 0 ELSE CHOOSE i \in hits : \A j \in hits : i <= j

\* The reply built for a topic item.
TopicReply(info) ==
    info.title \o "\n\n"
    \o "Overview: " \o info.overview \o "\n\n"
    \o "Typical steps:\n- " \o Join("\n- ", info.steps)
    \o "\n\n"
    \o "Typical timeline: " \o info.timeline \o "\n"
    \o "Benefits: " \o Join(", ", info.benefits)

\* The branch the handler takes for a non-empty text: its if statements in
\* their order.
\* Variants: the tests in another order, or with a literal missing.
BranchTopicFirst(text, topics) ==
    IF FirstTopic(text, topics) # 0 THEN "topic"
    ELSE IF ContainsAny(text, GreetingKeys) THEN "greeting"
    ELSE IF ContainsAny(text, TimelineKeys) THEN "timeline"
    ELSE IF ContainsAny(text, CostKeys) THEN "cost"
    ELSE "default"
BranchTopicLast(text, topics) ==
    IF ContainsAny(text, GreetingKeys) THEN "greeting"
    ELSE IF ContainsAny(text, TimelineKeys) THEN "timeline"
    ELSE IF ContainsAny(text, CostKeys) THEN "cost"
    ELSE IF FirstTopic(text, topics) # 0 THEN "topic"
    ELSE "default"
BranchTimelineFirst(text, topics) ==
    IF ContainsAny(text, GreetingKeys) THEN "greeting"
    ELSE IF ContainsAny(text, TimelineKeys) THEN "timeline"
    ELSE IF FirstTopic(text, topics) # 0 THEN "topic"
    ELSE IF ContainsAny(text, CostKeys) THEN "cost"
    ELSE "default"
BranchCostFirst(text, topics) ==
    IF ContainsAny(text, GreetingKeys) THEN "greeting"
    ELSE IF FirstTopic(text, topics) # 0 THEN "topic"
    ELSE IF ContainsAny(text, CostKeys) THEN "cost"
    ELSE IF ContainsAny(text, TimelineKeys) THEN "timeline"
    ELSE "default"
BranchNoHey(text, topics) ==
    IF ContainsAny(text, SubSeq(GreetingKeys, 1, 2)) THEN "greeting"
    ELSE IF FirstTopic(text, topics) # 0 THEN "topic"
    ELSE IF ContainsAny(text, TimelineKeys) THEN "timeline"
    ELSE IF ContainsAny(text, CostKeys) THEN "cost"
    ELSE "default"
BranchNoBudget(text, topics) ==
    IF ContainsAny(text, GreetingKeys) THEN "greeting"
    ELSE IF FirstTopic(text, topics) # 0 THEN "topic"
    ELSE IF ContainsAny(text, TimelineKeys) THEN "timeline"
    ELSE IF ContainsAny(text, SubSeq(CostKeys, 1, 2)) THEN "cost"
    ELSE "default"
Branch(text, topics) ==
    IF ContainsAny(text, GreetingKeys) THEN "greeting"
    ELSE IF FirstTopic(text, topics) # 0 THEN "topic"
    ELSE IF ContainsAny(text, TimelineKeys) THEN "timeline"
    ELSE IF ContainsAny(text, CostKeys) THEN "cost"
    ELSE "default"

\* chat(req), reading the two module-level tables.
chat(req, topics, generic) ==
    LET text == Text(req)
        branch == Branch(text, topics)
    IN  IF text = "" THEN HTTPException
        ELSE IF branch = "greeting" THEN ChatResponse(GreetingReply, generic)
        ELSE IF branch = "topic"
            THEN ChatResponse(TopicReply(topics[FirstTopic(text, topics)]), TopicSuggestions)
        ELSE IF branch = "timeline" THEN ChatResponse(TimelineReply, TimelineSuggestions)
        ELSE IF branch = "cost" THEN ChatResponse(CostReply, CostSuggestions)
        ELSE ChatResponse(DefaultReply, generic)

(***************************************************************************)
(* Requests.                                                               *)
(***************************************************************************)
\* ChatMessage(role, content)
ChatMessage(role, content) == [role |-> role, content |-> content]

\* ChatRequest(message, history): history is None (given = FALSE) or a list
\* of ChatMessage.
ChatRequest(message, history) == [message |-> message, history |-> history]

NoHistory == [given |-> FALSE, items |-> <<>>]

\* The values of the history field that clients send.
Histories == {
    NoHistory,
    [given |-> TRUE, items |-> <<>>],
    [given |-> TRUE, items |-> << ChatMessage("user", "hello, iso 9001 cost?"),
                                  ChatMessage("assistant", "how long") >>] }

\* What a client types a message from: the literals the handler looks for,
\* a blank, the two example messages, and "h" followed by a dotless i (|).
\* The messages hold ASCII characters and stand-ins only: TLC writes a
\* string of a state to its queue a byte per character, and a character
\* above U+007F does not come back from there as it went in.
Vocabulary ==
    {GreetingKeys[i] : i \in 1..Len(GreetingKeys)}
    \cup {CERT_TOPICS[i].key : i \in 1..Len(CERT_TOPICS)}
    \cup {TimelineKeys[i] : i \in 1..Len(TimelineKeys)}
    \cup {CostKeys[i] : i \in 1..Len(CostKeys)}
    \cup { " ", "Tell me about iso 27001 timelines", "what's the cost?", "h|" }

\* Whitespace put before or after a message: nothing, or the ten ASCII
\* whitespace characters (space, \t, \n, \r, \f, 0B, 1C, 1D, 1E, 1F).
Pads == { "", " \t\n\r\f" }

\* Messages of other clients: one that is refused, one that is answered.
OtherMessages == { " \t", "Hey, what is the price of iso 14001?" }

\* No response received (yet).
NoResponse == [status |-> 0]

VARIABLES
    cert_topics,          \* the module global CERT_TOPICS
    generic_suggestions,  \* the module global GENERIC_SUGGESTIONS
    req,                  \* the request the client is typing or has sent
    resp,                 \* the response to req, NoResponse before it arrives
    first,                \* the client's earlier request and its response
    rel,                  \* how req was made from first.req
    nfrags,               \* fragments typed into the first message
    others,               \* requests of other clients handled in between
    other,                \* the response to the latest of them
    pc                    \* "typing", "answered", "retyped", "reanswered"

vars == <<cert_topics, generic_suggestions, req, resp, first, rel, nfrags,
          others, other, pc>>

Init ==
    /\ cert_topics = CERT_TOPICS
    /\ generic_suggestions = GENERIC_SUGGESTIONS
    /\ req = ChatRequest("", NoHistory)
    /\ resp = NoResponse
    /\ first = [req |-> ChatRequest("", NoHistory), resp |-> NoResponse]
    /\ rel = "none"
    /\ nfrags = 0
    /\ others = 0
    /\ other = NoResponse
    /\ pc = "typing"

\* The client types one more fragment of the message.
Type(f) ==
    /\ pc = "typing"
    /\ nfrags < MaxFrags
    /\ req' = ChatRequest(req.message \o f, req.history)
    /\ nfrags' = nfrags + 1
    /\ UNCHANGED <<cert_topics, generic_suggestions, resp, first, rel, others, other, pc>>

\* Variant: the handler extends the shared list it answers with.
ChatAppendingToTable ==
    /\ pc \in {"typing", "retyped"}
    /\ resp' = chat(req, cert_topics, generic_suggestions)
    /\ generic_suggestions' =
          IF resp'.status = 200 /\ resp'.suggested_follow_ups = generic_suggestions
          THEN Append(generic_suggestions, "Anything else?")
          ELSE generic_suggestions
    /\ pc' = IF pc = "typing" THEN "answered" ELSE "reanswered"
    /\ UNCHANGED <<cert_topics, req, first, rel, nfrags, others, other>>
\* POST /api/chat with req: the handler runs and the response is sent.
Chat ==
    /\ pc \in {"typing", "retyped"}
    /\ resp' = chat(req, cert_topics, generic_suggestions)
    /\ pc' = IF pc = "typing" THEN "answered" ELSE "reanswered"
    /\ UNCHANGED <<cert_topics, generic_suggestions, req, first, rel, nfrags, others, other>>

\* The client keeps the answered request and prepares the next one, r.
Retype(r, how) ==
    /\ pc = "answered"
    /\ first' = [req |-> req, resp |-> resp]
    /\ req' = r
    /\ resp' = NoResponse
    /\ rel' = how
    /\ pc' = "retyped"
    /\ UNCHANGED <<cert_topics, generic_suggestions, nfrags, others, other>>

\* The same request again.
Resend == Retype(req, "same")

\* The same message with another history.
ResendWithHistory(h) ==
    /\ h # req.history
    /\ Retype(ChatRequest(req.message, h), "history")

\* The message with the case of its i-th character, an ASCII letter, changed.
ToggleCase(i) ==
    /\ pc = "answered"
    /\ i \in 1..Len(req.message)
    /\ At(req.message, i) \in UpperSet \cup LowerSet
    /\ LET c == At(req.message, i)
           d == IF c \in UpperSet THEN ToLowerAscii[c] ELSE ToUpperAscii[c]
           m == SubSeq(req.message, 1, i - 1) \o d \o SubSeq(req.message, i + 1, Len(req.message))
       IN  Retype(ChatRequest(m, req.history), "case")

\* The message in lower case, message.lower().
SendLower == Retype(ChatRequest(Lower(req.message), req.history), "lower")

\* The message in upper case, message.upper().
SendUpper == Retype(ChatRequest(Upper(req.message), req.history), "upper")

\* The message with whitespace before and after it.
Pad(l, r) ==
    /\ l \o r # ""
    /\ Retype(ChatRequest(l \o req.message \o r, req.history), "pad")

\* POST /api/chat of another client, handled between a request and its
\* repetition.  Nothing a client does reads others or other, so the place
\* of these requests among the client's own steps does not matter.
OtherChat(m) ==
    /\ pc = "retyped"
    /\ rel = "same"
    /\ others < MaxOthers
    /\ other' = chat(ChatRequest(m, NoHistory), cert_topics, generic_suggestions)
    /\ others' = others + 1
    /\ UNCHANGED <<cert_topics, generic_suggestions, req, resp, first, rel, nfrags, pc>>

Next ==
    \/ \E f \in Vocabulary : Type(f)
    \/ Chat
    \/ Resend
    \/ \E h \in Histories : ResendWithHistory(h)
    \/ \E i \in 1..Len(req.message) : ToggleCase(i)
    \/ SendLower
    \/ SendUpper
    \/ \E l \in Pads, r \in Pads : Pad(l, r)
    \/ \E m \in OtherMessages : OtherChat(m)

Spec == Init /\ [][Next]_vars

(***************************************************************************)
(* Vocabulary of the properties.                                           *)
(***************************************************************************)
\* A response to req has arrived.
Answered == pc \in {"answered", "reanswered"}

\* The message is empty or consists of whitespace only.
Blank(m) == \A i \in 1..Len(m) : At(m, i) \in Whitespace

\* The upper-case form of an ASCII character.
AsciiCap(c) == IF c \in LowerSet THEN ToUpperAscii[c] ELSE c

\* m contains the lower-case ASCII literal k, each letter in either case.
ContainsAnyCase(m, k) ==
    \E i \in 1..(Len(m) - Len(k) + 1) :
        \A j \in 1..Len(k) : At(m, i + j - 1) \in {At(k, j), AsciiCap(At(k, j))}

\* The lowercased message contains a greeting token, a topic key, a timeline
\* word, a cost word.
KeysIn(low, keys) == {i \in 1..Len(keys) : Contains(low, keys[i])}
HasGreeting(m) == KeysIn(Lower(m), GreetingKeys) # {}
TopicsIn(m) == KeysIn(Lower(m), [i \in 1..Len(CERT_TOPICS) |-> CERT_TOPICS[i].key])
HasTimeline(m) == KeysIn(Lower(m), TimelineKeys) # {}
HasCost(m) == KeysIn(Lower(m), CostKeys) # {}

\* The characters U+0080..U+00FF, and the characters above U+00FF that a
\* string here holds a stand-in for.
Latin1 == " ¡¢£¤¥¦§¨©ª«¬­®¯°±²³´µ¶·¸¹º»¼½¾¿ÀÁÂÃÄÅÆÇÈÉÊËÌÍÎÏÐÑÒÓÔÕÖ×ØÙÚÛÜÝÞßàáâãäåæçèéêëìíîïðñòóôõö÷øùúûüýþÿ"
NonAscii == {At(Latin1, i) : i \in 1..128} \cup {"^", "~", "_", "|", "{", "#", "}"}

\* Every character of m is an ASCII character.
IsAscii(m) == \A i \in 1..Len(m) : At(m, i) \notin NonAscii

\* The request was repeated in the way `how` and both responses are in.
Repeated(how) == pc = "reanswered" /\ rel = how

(***************************************************************************)
(* Properties.                                                             *)
(***************************************************************************)
\* C1: a message that is empty or whitespace only is refused with status 400
\* and detail "Message is required", and no ChatResponse is produced; a
\* message that is non-empty after trimming is never refused.
C1_BlankIsRefused ==
    Answered =>
        /\ Blank(req.message) => resp = [status |-> 400, detail |-> "Message is required"]
        /\ ~Blank(req.message) => resp.status = 200 /\ resp.reply # ""
C1_Witness ==
    /\ Repeated("pad")
    /\ first.req.message = " "
    /\ Len(req.message) = 21
    /\ {At(req.message, i) : i \in 1..Len(req.message)} \subseteq Whitespace
    /\ Cardinality({At(req.message, i) : i \in 1..Len(req.message)}) = 10
    /\ resp.status = 400

\* C2: a message that contains "hello", "hi" or "hey" in any letter case
\* gets the greeting reply with the generic three follow-ups, whatever else
\* it contains.
C2_GreetingWins ==
    (Answered /\ \E i \in 1..3 : ContainsAnyCase(req.message, GreetingKeys[i]))
        => /\ resp = ChatResponse(GreetingReply, GENERIC_SUGGESTIONS)
           /\ Len(resp.suggested_follow_ups) = 3
C2_Witness ==
    /\ Repeated("upper")
    /\ Contains(req.message, "HELLO")
    /\ Contains(req.message, "ISO 9001")
    /\ resp.reply = GreetingReply

\* C3 as stated: every message that contains "iso 9001" gets a reply that
\* contains "ISO 9001 (Quality Management)".
C3_AsStated ==
    (Answered /\ Contains(req.message, "iso 9001"))
        => /\ resp.status = 200
           /\ Contains(resp.reply, "ISO 9001 (Quality Management)")
\* C3 amended: every message that contains "iso 9001" and whose lowercased
\* text contains no greeting token gets a reply that contains (and starts
\* with) "ISO 9001 (Quality Management)", whatever topic keys, timeline
\* words or cost words it also contains.
C3_Iso9001UnlessGreeting ==
    (Answered /\ Contains(req.message, "iso 9001") /\ ~HasGreeting(req.message))
        => /\ resp.status = 200
           /\ Contains(resp.reply, "ISO 9001 (Quality Management)")
           /\ StartsWith(resp.reply, "ISO 9001 (Quality Management)")
C3_Witness ==
    /\ pc = "answered"
    /\ req.message = "timelineiso 9001"
    /\ StartsWith(resp.reply, "ISO 9001 (Quality Management)\n\nOverview: Framework")

\* C4: a message that contains a topic key never gets the timeline reply or
\* the cost reply; "Tell me about iso 27001 timelines" gets a reply that
\* starts with "ISO/IEC 27001 (Information Security)".
C4_TopicBeforeTimelineAndCost ==
    Answered =>
        /\ (\E i \in 1..3 : ContainsAnyCase(req.message, CERT_TOPICS[i].key))
              => /\ resp.status = 200
                 /\ resp.reply \notin {TimelineReply, CostReply}
        /\ req.message = "Tell me about iso 27001 timelines"
              => StartsWith(resp.reply, "ISO/IEC 27001 (Information Security)")
C4_Witness ==
    /\ pc = "answered"
    /\ req.message = "Tell me about iso 27001 timelines"
    /\ StartsWith(resp.reply, "ISO/IEC 27001 (Information Security)")
    /\ resp.suggested_follow_ups = TopicSuggestions

\* C5: of several topic keys in a message without a greeting token, the one
\* that comes first in the table decides the reply, wherever the keys stand
\* in the message.
C5_FirstKeyOfTheTable ==
    LET present == TopicsIn(req.message)
        least == CHOOSE i \in present : \A j \in present : i <= j
    IN  (Answered /\ Cardinality(present) >= 2 /\ ~HasGreeting(req.message))
            => /\ resp.status = 200
               /\ StartsWith(resp.reply, CERT_TOPICS[least].title)
               /\ \A j \in present \ {least} : ~StartsWith(resp.reply, CERT_TOPICS[j].title)
C5_Witness ==
    /\ pc = "answered"
    /\ req.message = "iso 14001iso 27001"
    /\ StartsWith(resp.reply, "ISO/IEC 27001")

\* C6: the handler has no hidden state: the two tables never change, and a
\* request repeated after other requests (refused ones too) gets the reply
\* and the follow-ups of the first time.
C6_NoHiddenState ==
    /\ cert_topics = CERT_TOPICS
    /\ generic_suggestions = GENERIC_SUGGESTIONS
    /\ Repeated("same") => resp = first.resp
C6_Witness ==
    /\ Repeated("same")
    /\ others > 0
    /\ other.status = 400
    /\ resp.status = 200
    /\ resp.suggested_follow_ups = GENERIC_SUGGESTIONS
    /\ resp = first.resp

\* C7: the history of a request does not matter: the same message with
\* another history has the same outcome.
C7_HistoryIgnored ==
    (Repeated("history") /\ req.message = first.req.message /\ req.history # first.req.history)
        => resp = first.resp
C7_Witness ==
    /\ Repeated("history")
    /\ ~first.req.history.given
    /\ Len(req.history.items) = 2
    /\ resp.status = 200
    /\ resp.reply = CostReply
    /\ resp = first.resp

\* C8: a message with a cost word and no greeting token, topic key or
\* timeline word gets the cost reply (it contains "fixed-fee phases") with
\* one follow-up; with a timeline word too it gets the timeline reply with
\* its one follow-up.
C8_CostAfterTimeline ==
    (Answered /\ HasCost(req.message) /\ ~HasGreeting(req.message) /\ TopicsIn(req.message) = {})
        => IF HasTimeline(req.message)
           THEN /\ resp = ChatResponse(TimelineReply, TimelineSuggestions)
                /\ Len(resp.suggested_follow_ups) = 1
           ELSE /\ resp = ChatResponse(CostReply, CostSuggestions)
                /\ Contains(resp.reply, "fixed-fee phases")
                /\ Len(resp.suggested_follow_ups) = 1
C8_Witness ==
    /\ pc = "answered"
    /\ req.message = "what's the cost?"
    /\ Contains(resp.reply, "fixed-fee phases")
    /\ Len(resp.suggested_follow_ups) = 1

\* C9: a message that is non-empty after trimming gets exactly one of the
\* greeting, topic, timeline, cost and default replies, and the default
\* reply (with the generic three follow-ups) exactly when its lowercased
\* text contains no greeting token, topic key, timeline word or cost word.
C9_FiveBranches ==
    (Answered /\ ~Blank(req.message)) =>
        /\ resp.status = 200
        /\ Cardinality({b \in {"greeting", "topic", "timeline", "cost", "default"} :
               \/ b = "greeting" /\ resp.reply = GreetingReply
               \/ b = "topic" /\ \E i \in 1..3 : StartsWith(resp.reply, CERT_TOPICS[i].title)
               \/ b = "timeline" /\ resp.reply = TimelineReply
               \/ b = "cost" /\ resp.reply = CostReply
               \/ b = "default" /\ resp.reply = DefaultReply}) = 1
        /\ resp = ChatResponse(DefaultReply, GENERIC_SUGGESTIONS)
              <=> /\ ~HasGreeting(req.message)
                  /\ TopicsIn(req.message) = {}
                  /\ ~HasTimeline(req.message)
                  /\ ~HasCost(req.message)
C9_Witness ==
    /\ pc = "answered"
    /\ req.message = "h| "
    /\ resp = ChatResponse(DefaultReply, GENERIC_SUGGESTIONS)

\* C10 as stated: the outcome is the same for a message, for any re-casing
\* of its letters, and for the message with whitespace around it.
C10_AsStated ==
    (pc = "reanswered" /\ rel \in {"case", "lower", "upper", "pad"}) => resp = first.resp
\* C10 amended: the outcome is the same for a message, for any re-casing of
\* its ASCII letters, and for the message with whitespace around it.  (The
\* upper case of a dotless i is "I": re-casing a letter outside ASCII can
\* change the lowercased text.)
C10_AsciiCaseAndPadding ==
    (\/ pc = "reanswered" /\ rel \in {"case", "lower", "pad"}
     \/ Repeated("upper") /\ IsAscii(first.req.message))
        => resp = first.resp
C10_Witness ==
    /\ Repeated("case")
    /\ Contains(first.req.message, "iso 9001")
    /\ Contains(req.message, "iSo 9001")
    /\ StartsWith(resp.reply, "ISO 9001 (Quality Management)")
    /\ resp = first.resp

====
